---- MODULE Spec2Model ----
(***************************************************************************)
(* Model of the cocaine worker protocol engine (cocaine/server/worker.py)  *)
(* and of its handler registry (class Sandbox, cocaine/sessioncontext.py). *)
(*                                                                         *)
(* One action stands for one callback of the single-threaded event loop:   *)
(* a decoded message (Worker.on_message), a heartbeat tick                 *)
(* (Worker.on_heartbeat), a disown expiry (Worker.on_disown); plus the     *)
(* calls the application makes (Worker.on, Worker.run) and the passing of  *)
(* time.                                                                   *)
(***************************************************************************)
EXTENDS Integers, Sequences, FiniteSets, TLC

VARIABLES
    sessions,         \* Worker.sessions: dict session id -> Deferred (index in sinks)
    events,           \* Sandbox._events: dict event name -> stored factory
    loop,             \* state of Worker.loop: "idle", "running", "stopped"
    exit_code,        \* <<>> while exit() was not called, <<status>> once it was
    disown_timer,     \* Worker.disown_timer
    heartbeat_timer,  \* Worker.heartbeat_timer
    timeouts,         \* [disown, heartbeat]: the constructor's two timeouts
    out,              \* every message written to Worker.w_stream, in order
    stop_at,          \* <<>>, or <<Len(out) when loop.stop() was called>>
    sinks,            \* sinks[d]: what Deferred d was handed (trigger/close/error)
    counts,           \* [msgs, beats, regs]: how many of each were performed;
                      \* unanswered: heartbeats written since the last one received;
                      \* waited: time passed since the oldest of them was written
    last              \* the callback that produced this state

vars == <<sessions, events, loop, exit_code, disown_timer, heartbeat_timer,
          timeouts, out, stop_at, sinks, counts, last>>

---------------------------------------------------------------------------
(* Bounds of the exploration *)

MaxMsgs == 3          \* received messages handled
MaxBeats == 1         \* periodic heartbeat ticks
MaxRegs == 1          \* calls of Worker.on
MaxBinds == 2         \* calls of Worker.on where only the registry and its dispatch are explored

SessionIds == {1, 2}
EventNames == {"ping", "work"}
BindNames == {"ping"}       \* the event names the application binds in a full run
Data == {"x", "y"}
TerminateArgs == {<<1, <<"shutdown">>>>, <<3, <<"replaced">>>>}
TimeoutChoices == {[disown |-> 1, heartbeat |-> 2], [disown |-> 2, heartbeat |-> 1]}

---------------------------------------------------------------------------
(* protocol.message.Message: one record shape per opcode *)

Handshake(identity) == [id |-> "HANDSHAKE", session |-> 0, identity |-> identity]
Heartbeat == [id |-> "HEARTBEAT", session |-> 0]
Invoke(s, e) == [id |-> "INVOKE", session |-> s, event |-> e]
Chunk(s, d) == [id |-> "CHUNK", session |-> s, data |-> d]
Choke(s) == [id |-> "CHOKE", session |-> s]
Error(s, code, reason) == [id |-> "ERROR", session |-> s, code |-> code, reason |-> reason]
Terminate(errno, reason) == [id |-> "TERMINATE", session |-> 0, errno |-> errno, reason |-> reason]

None == [id |-> "NONE", session |-> 0]
Garbage == [id |-> "GARBAGE", session |-> 0]

\* What the decoder can hand to on_message.
Incoming ==
    {Invoke(s, e) : s \in SessionIds, e \in EventNames}
    \cup {Chunk(s, d) : s \in SessionIds, d \in Data}
    \cup {Choke(s) : s \in SessionIds}
    \cup {Error(s, 5, <<"peer">>) : s \in SessionIds}
    \cup {Terminate(t[1], t[2]) : t \in TerminateArgs}
    \cup {Heartbeat, Handshake("peer"), Garbage}

\* Message.initialize(args): None for what is no message.
Initialize(args) == IF args = Garbage THEN None ELSE args

WorkerId == "uuid"

---------------------------------------------------------------------------
(* Application handlers: what a constructed handler's invoke(request,     *)
(* response) does to its response before it returns or raises.            *)

OpWrite(d) == [op |-> "write", data |-> d]
OpClose == [op |-> "close", data |-> ""]

\* ping writes "pong" and closes; wait returns at once and is resumed by later
\* chunks; faulty writes and then raises an ordinary exception; broken raises
\* ImportError.
Behaviour(name) ==
    CASE name = "ping"   -> [ops |-> <<OpWrite("pong"), OpClose>>, result |-> "return"]
      [] name = "wait"   -> [ops |-> <<>>, result |-> "return"]
      [] name = "faulty" -> [ops |-> <<OpWrite("pong")>>, result |-> "raise"]
      [] name = "broken" -> [ops |-> <<>>, result |-> "fatal"]

\* The callables an application registers: `constructs` says whether calling it
\* with no argument succeeds, `wrapped` whether what it builds has _wrapped.
Factories ==
    { [beh |-> "ping",   constructs |-> TRUE,  wrapped |-> TRUE],
      [beh |-> "wait",   constructs |-> TRUE,  wrapped |-> FALSE],
      [beh |-> "faulty", constructs |-> FALSE, wrapped |-> FALSE],
      [beh |-> "broken", constructs |-> TRUE,  wrapped |-> TRUE] }

\* cocaine.decorators.default: the adapter around a raw callable; what it
\* builds exposes _wrapped and the invoke(request, response) entry point.
default(f) == [f EXCEPT !.constructs = TRUE, !.wrapped = TRUE]

\* Sandbox.on: the factory stored under the event name.
Stored(event_handler) ==
    IF event_handler.constructs
    THEN IF ~event_handler.wrapped THEN default(event_handler) ELSE event_handler
    ELSE IF default(event_handler).wrapped THEN default(event_handler) ELSE event_handler

\* setdefault in place of the assignment: an existing key keeps its value.
Put_KeepFirst(d, k, v) == [x \in DOMAIN d \cup {k} |-> IF x \in DOMAIN d THEN d[x] ELSE v]

\* dict assignment d[k] = v and d.pop(k)
Put(d, k, v) == [x \in DOMAIN d \cup {k} |-> IF x = k THEN v ELSE d[x]]
\* pop that empties the dict.
Pop_Clear(d, k) == [x \in {} |-> d[x]]
Pop(d, k) == [x \in DOMAIN d \ {k} |-> d[x]]

\* on with self._events.setdefault: a name that is registered keeps its factory.
SandboxOn_KeepFirst(registry, event_name, event_handler) ==
    IF event_name \in DOMAIN registry THEN registry
    ELSE Put(registry, event_name, Stored(event_handler))

SandboxOn(registry, event_name, event_handler) ==
    Put(registry, event_name, Stored(event_handler))

\* Response.write / close / error, each through the worker's _send_* primitive.
SendChunk(s, d) == Chunk(s, d)
\* _send_choke written without its session id.
SendChoke_NoSession(s) == Choke(0)
SendChoke(s) == Choke(s)
SendError(s, code, msg) == Error(s, code, msg)

ResponseOp(s, o) == IF o.op = "write" THEN SendChunk(s, o.data) ELSE SendChoke(s)

RECURSIVE ResponseOps(_, _)
ResponseOps(s, ops) ==
    IF ops = <<>> THEN <<>>
    ELSE <<ResponseOp(s, Head(ops))>> \o ResponseOps(s, Tail(ops))

SentinelCode == -100

\* invoke with self._events[event_name] in place of .get: a name that is not
\* registered raises KeyError and nothing is written.
SandboxInvoke_KeyError(registry, event_name, s) ==
    IF event_name \in DOMAIN registry
    THEN IF registry[event_name].constructs
         THEN [sent |-> ResponseOps(s, Behaviour(registry[event_name].beh).ops),
               result |-> Behaviour(registry[event_name].beh).result,
               built |-> <<registry[event_name]>>]
         ELSE [sent |-> <<>>, result |-> "raise", built |-> <<>>]
    ELSE [sent |-> <<>>, result |-> "raise", built |-> <<>>]

\* Sandbox.invoke(event_name, request, stream): what it sends through the
\* stream, how it ends ("return", "raise" or "fatal") and the factories whose
\* closure it called to construct a handler.
SandboxInvoke(registry, event_name, s) ==
    IF event_name \in DOMAIN registry
    THEN IF registry[event_name].constructs
         THEN [sent |-> ResponseOps(s, Behaviour(registry[event_name].beh).ops),
               result |-> Behaviour(registry[event_name].beh).result,
               built |-> <<registry[event_name]>>]
         ELSE [sent |-> <<>>, result |-> "raise", built |-> <<>>]
    ELSE [sent |-> <<SendError(s, SentinelCode, <<"there is no handler for event", event_name>>)>>,
          result |-> "return", built |-> <<>>]

---------------------------------------------------------------------------
(* asio.ev.Timer: a countdown; start() (re)arms it to its full interval,   *)
(* stop() cancels it, and it is due once nothing is left.                  *)

TimerStopped == [active |-> FALSE, left |-> 0]
TimerStart(interval) == [active |-> TRUE, left |-> interval]
TimerStop(t) == TimerStopped
TimerDue(t) == t.active /\ t.left = 0
TimerTick(t) == IF t.active /\ t.left > 0 THEN [t EXCEPT !.left = @ - 1] ELSE t

\* The record of a callback: what ran, on which message, how its dispatch or
\* push ended, and the engine's state when it began.
Before ==
    [sessions |-> sessions, out |-> out, sinks |-> sinks, loop |-> loop,
     disown_timer |-> disown_timer, events |-> events]
Step(kind, msg, result) ==
    [kind |-> kind, msg |-> msg, result |-> result, built |-> <<>>,
     before |-> Before]

\* A new Deferred is the next index of sinks.
NewDeferred == Len(sinks) + 1
\* A push that lands ahead of what the Deferred already holds.
Trigger_Prepend(d, data) == [sinks EXCEPT ![d] = <<<<"chunk", data>>>> \o @]
Trigger(d, data) == [sinks EXCEPT ![d] = Append(@, <<"chunk", data>>)]
Close(d) == [sinks EXCEPT ![d] = Append(@, <<"close">>)]
Errback(d, reason) == [sinks EXCEPT ![d] = Append(@, <<"error">> \o reason)]

---------------------------------------------------------------------------
\* A constructor that leaves the periodic heartbeat timer unstarted.
Init_NoHeartbeatTimer ==
    /\ timeouts \in TimeoutChoices
    /\ sessions = <<>>
    /\ events = <<>>
    /\ loop = "idle"
    /\ exit_code = <<>>
    /\ heartbeat_timer = TimerStopped
    /\ disown_timer = TimerStart(timeouts.disown)
    /\ out = <<Handshake(WorkerId), Heartbeat>>
    /\ stop_at = <<>>
    /\ sinks = <<>>
    /\ counts = [msgs |-> 0, beats |-> 0, regs |-> 0, unanswered |-> 1, waited |-> 0]
    /\ last = [kind |-> "init", msg |-> None, result |-> "none", built |-> <<>>,
               before |-> [sessions |-> <<>>, out |-> <<>>, sinks |-> <<>>,
                           loop |-> "idle", disown_timer |-> TimerStopped,
                           events |-> <<>>]]

(* Worker.__init__: the state once the constructor has returned.  The     *)
(* heartbeat timer is started, then the handshake and the first heartbeat *)
(* are written, the latter starting the disown timer.                     *)

Init ==
    /\ timeouts \in TimeoutChoices
    /\ sessions = <<>>
    /\ events = <<>>
    /\ loop = "idle"
    /\ exit_code = <<>>
    /\ heartbeat_timer = TimerStart(timeouts.heartbeat)
    /\ disown_timer = TimerStart(timeouts.disown)
    /\ out = <<Handshake(WorkerId), Heartbeat>>
    /\ stop_at = <<>>
    /\ sinks = <<>>
    /\ counts = [msgs |-> 0, beats |-> 0, regs |-> 0, unanswered |-> 1, waited |-> 0]
    /\ last = [kind |-> "init", msg |-> None, result |-> "none", built |-> <<>>,
               before |-> [sessions |-> <<>>, out |-> <<>>, sinks |-> <<>>,
                           loop |-> "idle", disown_timer |-> TimerStopped,
                           events |-> <<>>]]

\* terminate with loop.stop() ahead of the write.
WorkerTerminate_StopFirst(written, errno, reason) ==
    /\ out' = Append(written, Terminate(errno, reason))
    /\ stop_at' = <<Len(written)>>
    /\ loop' = "stopped"
    /\ exit_code' = <<1>>

\* Worker.terminate(errno, reason), after `written` went to the stream.
WorkerTerminate(written, errno, reason) ==
    /\ out' = Append(written, Terminate(errno, reason))
    /\ stop_at' = <<Len(written) + 1>>
    /\ loop' = "stopped"
    /\ exit_code' = <<1>>

\* _send_heartbeat that starts the disown timer only when it is not running.
SendHeartbeat_NoRearm ==
    /\ disown_timer' = IF disown_timer.active THEN disown_timer
                       ELSE TimerStart(timeouts.disown)
    /\ out' = Append(out, Heartbeat)

\* Worker._send_heartbeat
SendHeartbeat ==
    /\ disown_timer' = TimerStart(timeouts.disown)
    /\ out' = Append(out, Heartbeat)

\* Worker.on(event, callback), called by the application before run(), as the
\* loop over binds in run() does.
On(event, callback) ==
    /\ loop = "idle"
    /\ events' = SandboxOn(events, event, callback)
    /\ counts' = [counts EXCEPT !.regs = @ + 1]
    /\ last' = Step("on", [id |-> "ON", session |-> 0, event |-> event,
                            callback |-> callback], "none")
    /\ UNCHANGED <<sessions, loop, exit_code, disown_timer, heartbeat_timer,
                   timeouts, out, stop_at, sinks>>

\* Worker.run(): the loop starts to call back.
Run ==
    /\ loop = "idle"
    /\ loop' = "running"
    /\ last' = Step("run", None, "none")
    /\ UNCHANGED <<sessions, events, exit_code, disown_timer, heartbeat_timer,
                   timeouts, out, stop_at, sinks, counts>>

\* Worker.on_heartbeat: the periodic timer fired and is armed again.
on_heartbeat ==
    /\ loop = "running"
    /\ TimerDue(heartbeat_timer)
    /\ counts.beats < MaxBeats
    /\ SendHeartbeat
    /\ heartbeat_timer' = TimerStart(timeouts.heartbeat)
    /\ counts' = [counts EXCEPT !.beats = @ + 1, !.unanswered = @ + 1,
                                !.waited = IF counts.unanswered = 0 THEN 0 ELSE @]
    /\ last' = Step("heartbeat", None, "none")
    /\ UNCHANGED <<sessions, events, loop, exit_code, timeouts, stop_at, sinks>>

\* Worker.on_disown: the disown timer fired.
on_disown ==
    /\ loop = "running"
    /\ TimerDue(disown_timer)
    /\ loop' = "stopped"
    /\ stop_at' = <<Len(out)>>
    /\ disown_timer' = TimerStopped
    /\ last' = Step("disown", None, "none")
    /\ UNCHANGED <<sessions, events, exit_code, heartbeat_timer, timeouts, out,
                   sinks, counts>>

\* Time passes while the loop waits: no timer is due.
Tick ==
    /\ loop = "running"
    /\ ~TimerDue(heartbeat_timer)
    /\ ~TimerDue(disown_timer)
    /\ heartbeat_timer' = TimerTick(heartbeat_timer)
    /\ disown_timer' = TimerTick(disown_timer)
    /\ counts' = [counts EXCEPT !.waited = IF counts.unanswered > 0 THEN @ + 1 ELSE @]
    /\ last' = Step("tick", None, "none")
    /\ UNCHANGED <<sessions, events, loop, exit_code, timeouts, out, stop_at,
                   sinks>>

---------------------------------------------------------------------------
(* Worker.on_message, one operator per branch.  Each states the whole      *)
(* effect of the branch but for counts and last, which Receive sets.       *)

RecoverableCode == 1
FatalCode == 2

\* INVOKE whose dispatch returned without the session being recorded.
InvokeReturned_NoInsert(msg, r) ==
    /\ out' = out \o r.sent
    /\ UNCHANGED <<sessions, loop, exit_code, stop_at>>

\* INVOKE, dispatch returned: the new Deferred is recorded under the session id.
InvokeReturned(msg, r) ==
    /\ sessions' = Put(sessions, msg.session, NewDeferred)
    /\ out' = out \o r.sent
    /\ UNCHANGED <<loop, exit_code, stop_at>>

\* INVOKE with the session recorded ahead of the dispatch, so that it is
\* there when the dispatch raises.
InvokeRaised_Inserted(msg, r) ==
    /\ sessions' = Put(sessions, msg.session, NewDeferred)
    /\ out' = Append(out \o r.sent,
                     SendError(msg.session, 1, <<"Invocation error">>))
    /\ UNCHANGED <<loop, exit_code, stop_at>>

\* INVOKE, dispatch raised an Exception that is no ImportError or SyntaxError.
InvokeRaised(msg, r) ==
    /\ out' = Append(out \o r.sent,
                     SendError(msg.session, RecoverableCode, <<"Invocation error">>))
    /\ UNCHANGED <<sessions, loop, exit_code, stop_at>>

\* INVOKE with `except Exception` ahead of `except (ImportError, SyntaxError)`.
InvokeFatal_GenericFirst(msg, r) == InvokeRaised(msg, r)

\* INVOKE, dispatch raised ImportError or SyntaxError.
InvokeFatal(msg, r) ==
    /\ WorkerTerminate(
          Append(out \o r.sent,
                 SendError(msg.session, FatalCode,
                           <<"unrecoverable error: ", "ImportError">>)),
          1, <<"Bad code">>)
    /\ UNCHANGED sessions

\* INVOKE: a fresh Deferred/Request/Response, then the dispatch and its outcome.
OnInvoke(msg) ==
    LET r == SandboxInvoke(events, msg.event, msg.session)
    IN  /\ sinks' = Append(sinks, <<>>)
        /\ CASE r.result = "return" -> InvokeReturned(msg, r)
             [] r.result = "fatal" -> InvokeFatal(msg, r)
             [] r.result = "raise" -> InvokeRaised(msg, r)
        /\ UNCHANGED <<events, disown_timer, heartbeat_timer, timeouts>>

\* CHUNK whose handler logs the exception of the push and goes on.
OnChunk_Swallow(msg, push_raises) ==
    /\ IF msg.session \in DOMAIN sessions
       THEN IF push_raises
            THEN UNCHANGED <<sinks, out, loop, exit_code, stop_at>>
            ELSE /\ sinks' = Trigger(sessions[msg.session], msg.data)
                 /\ UNCHANGED <<out, loop, exit_code, stop_at>>
       ELSE /\ WorkerTerminate(out, 1, <<"Push error: ", ToString(msg.session)>>)
            /\ UNCHANGED sinks
    /\ UNCHANGED <<sessions, events, disown_timer, heartbeat_timer, timeouts>>

\* CHUNK: the lookup and the push are in one try block; a KeyError of the
\* lookup and an exception of the push both end in terminate.
OnChunk(msg, push_raises) ==
    /\ IF msg.session \in DOMAIN sessions
       THEN IF push_raises
            THEN /\ WorkerTerminate(out, 1, <<"Push error: ", "push failed">>)
                 /\ UNCHANGED sinks
            ELSE /\ sinks' = Trigger(sessions[msg.session], msg.data)
                 /\ UNCHANGED <<out, loop, exit_code, stop_at>>
       ELSE /\ WorkerTerminate(out, 1, <<"Push error: ", ToString(msg.session)>>)
            /\ UNCHANGED sinks
    /\ UNCHANGED <<sessions, events, disown_timer, heartbeat_timer, timeouts>>

\* CHOKE with the lookup written as in the CHUNK branch: sessions[msg.session]
\* inside a try block whose handler terminates.
OnChoke_LikeChunk(msg) ==
    /\ IF msg.session \in DOMAIN sessions
       THEN /\ sinks' = Close(sessions[msg.session])
            /\ sessions' = Pop(sessions, msg.session)
            /\ UNCHANGED <<out, loop, exit_code, stop_at>>
       ELSE /\ WorkerTerminate(out, 1, <<"Choke error: ", ToString(msg.session)>>)
            /\ UNCHANGED <<sinks, sessions>>
    /\ UNCHANGED <<events, disown_timer, heartbeat_timer, timeouts>>

\* CHOKE: close the session's Deferred and pop the entry, if there is one.
OnChoke(msg) ==
    /\ IF msg.session \in DOMAIN sessions
       THEN /\ sinks' = Close(sessions[msg.session])
            /\ sessions' = Pop(sessions, msg.session)
       ELSE UNCHANGED <<sinks, sessions>>
    /\ UNCHANGED <<events, loop, exit_code, disown_timer, heartbeat_timer,
                   timeouts, out, stop_at>>

\* HEARTBEAT that starts the disown timer anew where it should stop it.
OnHeartbeat_Restart(msg) ==
    /\ disown_timer' = TimerStart(timeouts.disown)
    /\ UNCHANGED <<sessions, events, loop, exit_code, heartbeat_timer, timeouts,
                   out, stop_at, sinks>>

\* HEARTBEAT: stop the disown timer.
OnHeartbeat(msg) ==
    /\ disown_timer' = TimerStop(disown_timer)
    /\ UNCHANGED <<sessions, events, loop, exit_code, heartbeat_timer, timeouts,
                   out, stop_at, sinks>>

\* TERMINATE: terminate with the peer's errno and reason.
OnTerminate(msg) ==
    /\ WorkerTerminate(out, msg.errno, msg.reason)
    /\ UNCHANGED <<sessions, events, disown_timer, heartbeat_timer, timeouts, sinks>>

\* ERROR that pops the session as CHOKE does.
OnError_Pop(msg) ==
    /\ IF msg.session \in DOMAIN sessions
       THEN /\ sinks' = Errback(sessions[msg.session], msg.reason)
            /\ sessions' = Pop(sessions, msg.session)
       ELSE UNCHANGED <<sinks, sessions>>
    /\ UNCHANGED <<events, loop, exit_code, disown_timer,
                   heartbeat_timer, timeouts, out, stop_at>>

\* ERROR: hand the error to the session's Deferred, if there is one.
OnError(msg) ==
    /\ IF msg.session \in DOMAIN sessions
       THEN sinks' = Errback(sessions[msg.session], msg.reason)
       ELSE UNCHANGED sinks
    /\ UNCHANGED <<sessions, events, loop, exit_code, disown_timer,
                   heartbeat_timer, timeouts, out, stop_at>>

\* msg is None, or an opcode no branch names.
OnIgnored(msg) ==
    UNCHANGED <<sessions, events, loop, exit_code, disown_timer, heartbeat_timer,
                timeouts, out, stop_at, sinks>>

\* How the branch ended, for the record kept in last.
Outcome(msg, push_raises) ==
    CASE msg.id = "INVOKE" -> SandboxInvoke(events, msg.event, msg.session).result
      [] msg.id = "CHUNK" ->
            IF msg.session \notin DOMAIN sessions THEN "keyerror"
            ELSE IF push_raises THEN "raise" ELSE "return"
      [] OTHER -> "return"

\* The factories called to construct a handler while the message was handled.
Built(msg) ==
    IF msg.id = "INVOKE" THEN SandboxInvoke(events, msg.event, msg.session).built
    ELSE <<>>

OnMessage(args, push_raises) ==
    LET msg == Initialize(args)
    IN  /\ CASE msg.id = "INVOKE" -> OnInvoke(msg)
             [] msg.id = "CHUNK" -> OnChunk(msg, push_raises)
             [] msg.id = "CHOKE" -> OnChoke(msg)
             [] msg.id = "HEARTBEAT" -> OnHeartbeat(msg)
             [] msg.id = "TERMINATE" -> OnTerminate(msg)
             [] msg.id = "ERROR" -> OnError(msg)
             [] OTHER -> OnIgnored(msg)
        /\ last' = [Step("message", args, Outcome(msg, push_raises))
                        EXCEPT !.built = Built(msg)]

\* The decoder hands the next message of the stream to on_message.
Receive(args, push_raises) ==
    /\ loop = "running"
    /\ counts.msgs < MaxMsgs
    /\ push_raises => (args.id = "CHUNK" /\ args.session \in DOMAIN sessions)
    /\ OnMessage(args, push_raises)
    /\ counts' = [counts EXCEPT !.msgs = @ + 1,
                                !.unanswered = IF args.id = "HEARTBEAT" THEN 0 ELSE @,
                                !.waited = IF args.id = "HEARTBEAT" THEN 0 ELSE @]

Next ==
    \/ \E e \in BindNames, f \in Factories : counts.regs < MaxRegs /\ On(e, f)
    \/ Run
    \/ \E args \in Incoming, push_raises \in BOOLEAN : Receive(args, push_raises)
    \/ on_heartbeat
    \/ on_disown
    \/ Tick

Spec == Init /\ [][Next]_vars

\* The registry and its dispatch: the application registers up to MaxBinds
\* factories, then the worker runs and handles what it receives; the timers are
\* left out.
RegistryNext ==
    \/ \E e \in EventNames, f \in Factories : counts.regs < MaxBinds /\ On(e, f)
    \/ Run
    \/ \E args \in Incoming, push_raises \in BOOLEAN : Receive(args, push_raises)

RegistrySpec == Init /\ [][RegistryNext]_vars

\* The event loop started by run() calls back every timer that is due and
\* lets time pass while none is; received messages depend on the peer and are
\* under no fairness.
FairSpec ==
    /\ Spec
    /\ WF_vars(Run)
    /\ WF_vars(Tick)
    /\ WF_vars(on_heartbeat)
    /\ WF_vars(on_disown)

TypeOK ==
    /\ loop \in {"idle", "running", "stopped"}
    /\ DOMAIN sessions \subseteq SessionIds
    /\ \A s \in DOMAIN sessions : sessions[s] \in 1..Len(sinks)
    /\ DOMAIN events \subseteq EventNames
    /\ exit_code \in {<<>>, <<1>>}

---------------------------------------------------------------------------
(* Reading the record of the last callback *)

\* The last callback handled a received message with this opcode.
Handled(id) == last.kind = "message" /\ last.msg.id = id

\* What the last callback wrote to the stream.
Sent == SubSeq(out, Len(last.before.out) + 1, Len(out))

Count(seq, id) == Cardinality({i \in DOMAIN seq : seq[i].id = id})

\* The last callback left the table, the sinks and the stream as they were.
NothingDone ==
    /\ sessions = last.before.sessions
    /\ sinks = last.before.sinks
    /\ out = last.before.out

HadSession(s) == s \in DOMAIN last.before.sessions

---------------------------------------------------------------------------
(* C1. A CHUNK for a session id with no Session Table entry is ignored:    *)
(* nothing is delivered, nothing is emitted (no TERMINATE), the table is   *)
(* unchanged and the engine keeps running.  The code does otherwise: the   *)
(* failed lookup raises inside the try block and ends in terminate.        *)
C1_UnknownChunkIgnored ==
    (Handled("CHUNK") /\ ~HadSession(last.msg.session))
        => (NothingDone /\ loop = "running")

\* A state in which the case of C1 happened: a CHUNK for a session that an
\* earlier CHOKE removed.
C1_ChunkAfterChoke ==
    /\ Handled("CHUNK")
    /\ ~HadSession(last.msg.session)
    /\ \E d \in DOMAIN sinks : <<"close">> \in {sinks[d][i] : i \in DOMAIN sinks[d]}

---------------------------------------------------------------------------
\* The event is registered and its handler writes a payload, closes its
\* response and returns.
WritesThenCloses(e) ==
    /\ e \in DOMAIN events
    /\ Behaviour(events[e].beh) = [ops |-> <<OpWrite("pong"), OpClose>>, result |-> "return"]

(* C2, as stated. An INVOKE(s, e) whose handler writes a payload and then  *)
(* closes its response makes the engine emit CHUNK(s, payload) and then    *)
(* CHOKE(s), and s is absent from the Session Table afterwards.            *)
C2_ReplyThenSessionAbsent ==
    (Handled("INVOKE") /\ WritesThenCloses(last.msg.event))
        => /\ Sent = <<Chunk(last.msg.session, "pong"), Choke(last.msg.session)>>
           /\ last.msg.session \notin DOMAIN sessions

(* C2, amended. An INVOKE(s, e) whose handler writes a payload and then    *)
(* closes its response makes the engine emit CHUNK(s, payload) and then    *)
(* CHOKE(s), in that order and nothing else, and s is present in the       *)
(* Session Table once the INVOKE has been processed.                       *)
C2_ReplyThenSessionKept ==
    (Handled("INVOKE") /\ WritesThenCloses(last.msg.event))
        => /\ Sent = <<Chunk(last.msg.session, "pong"), Choke(last.msg.session)>>
           /\ last.msg.session \in DOMAIN sessions

C2_PingInvoked ==
    /\ Handled("INVOKE")
    /\ WritesThenCloses(last.msg.event)
    /\ Len(Sent) = 2

---------------------------------------------------------------------------
(* C3. After an INVOKE(s, e) whose dispatch returned without raising, the  *)
(* Session Table maps s to the Deferred built for this INVOKE and every    *)
(* other entry is as before; also when e is not registered and dispatch    *)
(* only wrote the sentinel error.                                          *)
C3_ReturnedInvokeRecorded ==
    (Handled("INVOKE") /\ last.result = "return")
        => /\ last.msg.session \in DOMAIN sessions
           /\ sessions[last.msg.session] = Len(last.before.sinks) + 1
           /\ sinks[sessions[last.msg.session]] = <<>>
           /\ DOMAIN sessions = DOMAIN last.before.sessions \cup {last.msg.session}
           /\ \A t \in DOMAIN sessions \ {last.msg.session} :
                  sessions[t] = last.before.sessions[t]

C3_UnregisteredInvokeRecorded ==
    /\ Handled("INVOKE")
    /\ last.result = "return"
    /\ last.msg.event \notin DOMAIN events
    /\ last.msg.session \in DOMAIN sessions

---------------------------------------------------------------------------
(* C4. An INVOKE(s, e) for an event with no registration does not raise;   *)
(* the engine emits exactly one message, an ERROR for s with the sentinel  *)
(* code -100, no TERMINATE, and keeps running; s is in the Session Table   *)
(* and, as every entry, leaves it only when a CHOKE(s) is received.        *)
C4_UnregisteredInvokeNonFatal ==
    /\ (Handled("INVOKE") /\ last.msg.event \notin DOMAIN events)
          => /\ last.result = "return"
             /\ Len(Sent) = 1
             /\ Sent[1].id = "ERROR"
             /\ Sent[1].session = last.msg.session
             /\ Sent[1].code = -100
             /\ loop = "running"
             /\ exit_code = <<>>
             /\ last.msg.session \in DOMAIN sessions
    /\ \A s \in DOMAIN last.before.sessions :
          s \notin DOMAIN sessions => (Handled("CHOKE") /\ last.msg.session = s)

\* The session of an unregistered INVOKE was still there one message later,
\* and a CHOKE has now removed it.
C4_UnregisteredThenChoked ==
    /\ Handled("CHOKE")
    /\ HadSession(last.msg.session)
    /\ last.msg.session \notin DOMAIN sessions
    /\ events = <<>>
    /\ Count(out, "ERROR") = 1

---------------------------------------------------------------------------
(* C5. An INVOKE(s, e) whose dispatch raises a recoverable error: the      *)
(* engine emits exactly one ERROR, for s, with code 1 (not the fatal code  *)
(* 2), as the last message of the callback; no Session Table entry is      *)
(* created, no TERMINATE is emitted and the engine keeps running.          *)
C5_RecoverableInvokeError ==
    (Handled("INVOKE") /\ last.result = "raise")
        => /\ Count(Sent, "ERROR") = 1
           /\ Sent[Len(Sent)] = Error(last.msg.session, 1, <<"Invocation error">>)
           /\ Sent[Len(Sent)].code # FatalCode
           /\ Count(Sent, "TERMINATE") = 0
           /\ sessions = last.before.sessions
           /\ loop = "running"
           /\ exit_code = <<>>

\* A handler raised on an INVOKE for a session with no entry, after writing.
C5_HandlerRaised ==
    /\ Handled("INVOKE")
    /\ last.result = "raise"
    /\ ~HadSession(last.msg.session)
    /\ Len(Sent) = 2

---------------------------------------------------------------------------
(* C6. An INVOKE(s, e) whose dispatch raises a fatal-class error: the      *)
(* engine emits exactly one ERROR for s (code 2) and then exactly one      *)
(* TERMINATE(1, "Bad code"), creates no Session Table entry, stops, and    *)
(* once it has stopped no callback runs any more.                          *)
C6_FatalInvokeError ==
    /\ (Handled("INVOKE") /\ last.result = "fatal")
          => /\ Sent = <<Error(last.msg.session, 2,
                               <<"unrecoverable error: ", "ImportError">>),
                         Terminate(1, <<"Bad code">>)>>
             /\ sessions = last.before.sessions
             /\ loop = "stopped"
             /\ exit_code = <<1>>
             /\ stop_at = <<Len(out)>>
    /\ loop = "stopped" => last.before.loop = "running"

C6_BrokenHandlerInvoked ==
    /\ Handled("INVOKE")
    /\ last.result = "fatal"
    /\ ~HadSession(last.msg.session)
    /\ counts.msgs > 1

---------------------------------------------------------------------------
(* C7. A received CHOKE(s) or ERROR(s) for a session id with no Session    *)
(* Table entry is a no-op: nothing raised, nothing emitted, nothing        *)
(* delivered, the Session Table unchanged, the engine still running.       *)
C7_UnknownChokeErrorNoOp ==
    ((Handled("CHOKE") \/ Handled("ERROR")) /\ ~HadSession(last.msg.session))
        => /\ NothingDone
           /\ last.result = "return"
           /\ loop = "running"
           /\ exit_code = <<>>
           /\ stop_at = <<>>

\* A CHOKE for a session with no entry, handled while another session is live.
C7_ChokeUnknownSession ==
    /\ Handled("CHOKE")
    /\ ~HadSession(last.msg.session)
    /\ DOMAIN sessions # {}

---------------------------------------------------------------------------
(* C8. When the disown timer elapses the engine stops the scheduler, emits *)
(* no further message and exits the process with a non-zero status.  The   *)
(* code stops the loop and writes nothing, but never calls exit.           *)
C8_DisownExitsNonZero ==
    last.kind = "disown"
        => /\ loop = "stopped"
           /\ out = last.before.out
           /\ exit_code = <<1>>

---------------------------------------------------------------------------
(* C9. On TERMINATE(errno, reason) from the peer the engine emits exactly  *)
(* one TERMINATE with the same errno and reason, then stops the loop and   *)
(* exits with status 1; whenever terminate ran, the TERMINATE was written  *)
(* before the loop was stopped and is the last message ever written.       *)
C9_PeerTerminateEchoed ==
    /\ Handled("TERMINATE")
          => /\ Sent = <<Terminate(last.msg.errno, last.msg.reason)>>
             /\ loop = "stopped"
             /\ exit_code = <<1>>
    /\ exit_code # <<>>
          => /\ loop = "stopped"
             /\ out[Len(out)].id = "TERMINATE"
             /\ Count(Sent, "TERMINATE") = 1
             /\ stop_at = <<Len(out)>>

C9_PeerTerminated ==
    /\ Handled("TERMINATE")
    /\ last.msg.errno = 3
    /\ DOMAIN sessions # {}

---------------------------------------------------------------------------
(* C10. Handling a received HEARTBEAT leaves the disown timer not running, *)
(* however many heartbeats were emitted since the last one received and    *)
(* whatever the Session Table holds; the Session Table, the sinks, the     *)
(* emitted messages and the loop are unchanged.                            *)
C10_HeartbeatStopsDisown ==
    Handled("HEARTBEAT")
        => /\ ~disown_timer.active
           /\ NothingDone
           /\ loop = "running"
           /\ exit_code = <<>>

\* A HEARTBEAT handled with two heartbeats unanswered, the disown timer
\* running and a session in the table.
C10_HeartbeatAfterTwoBeats ==
    /\ Handled("HEARTBEAT")
    /\ last.before.disown_timer.active
    /\ Count(out, "HEARTBEAT") = 2
    /\ counts.msgs = 2
    /\ DOMAIN sessions # {}

---------------------------------------------------------------------------
(* C11. Every heartbeat emission, the initial one and each periodic one,   *)
(* leaves the disown timer running with its full configured duration,      *)
(* also when it was already running from an unanswered heartbeat; once the *)
(* disown timer has elapsed the engine is stopped and handles no message,  *)
(* so a HEARTBEAT arriving then has no effect.                             *)
C11_HeartbeatRearmsDisown ==
    /\ last.kind \in {"init", "heartbeat"}
          => /\ disown_timer = [active |-> TRUE, left |-> timeouts.disown]
             /\ out[Len(out)] = Heartbeat
    /\ last.kind = "heartbeat" => Sent = <<Heartbeat>>
    /\ last.kind = "disown" => loop = "stopped"
    /\ loop = "stopped" => last.before.loop = "running"

\* A periodic heartbeat written while the disown timer was running with part
\* of its time gone.
C11_RearmedWhileRunning ==
    /\ last.kind = "heartbeat"
    /\ last.before.disown_timer.active
    /\ last.before.disown_timer.left < timeouts.disown
    /\ last.before.disown_timer.left > 0

---------------------------------------------------------------------------
(* C13. When the push of a CHUNK payload into the Deferred of an existing  *)
(* session raises, the engine terminates at once: exactly one TERMINATE    *)
(* with a push-error reason is emitted, the loop is stopped, the process   *)
(* exits, and no Deferred is handed anything then or later.                *)
C13_PushFailureTerminates ==
    /\ (Handled("CHUNK") /\ HadSession(last.msg.session) /\ last.result = "raise")
          => /\ Len(Sent) = 1
             /\ Sent[1].id = "TERMINATE"
             /\ Sent[1].errno = 1
             /\ Sent[1].reason[1] = "Push error: "
             /\ loop = "stopped"
             /\ exit_code = <<1>>
             /\ stop_at = <<Len(out)>>
             /\ sinks = last.before.sinks
             /\ sessions = last.before.sessions
    /\ loop = "stopped" => last.before.loop = "running"

\* A push raised on a session that had taken a chunk before, another live.
C13_PushRaised ==
    /\ Handled("CHUNK")
    /\ HadSession(last.msg.session)
    /\ last.result = "raise"
    /\ counts.msgs = 3

---------------------------------------------------------------------------
\* Why the last callback stopped the engine, when it did.
FatalHandlerError == Handled("INVOKE") /\ last.result = "fatal"
DeliveryFailure ==
    Handled("CHUNK") /\ HadSession(last.msg.session) /\ last.result = "raise"
DisownExpiry == last.kind = "disown"
PeerTerminate == Handled("TERMINATE")

(* C14. The engine stops only on a fatal handler error, a delivery failure *)
(* on an existing session, a disown expiry or a peer TERMINATE, and each   *)
(* of these stops it; every other message or timer event leaves it running *)
(* and emits no TERMINATE.  The code also stops on a CHUNK for a session   *)
(* that has no entry (C1).                                                 *)
C14_OnlyFatalCausesStop ==
    last.before.loop = "running"
        => /\ (FatalHandlerError \/ DeliveryFailure \/ DisownExpiry \/ PeerTerminate)
                 => loop = "stopped"
           /\ ~(FatalHandlerError \/ DeliveryFailure \/ DisownExpiry \/ PeerTerminate)
                 => (loop = "running" /\ Count(Sent, "TERMINATE") = 0)

---------------------------------------------------------------------------
(* C16. A received ERROR(s) for a session in the Session Table hands an    *)
(* error notification to that session's Deferred and does not remove the   *)
(* entry; a later CHUNK(s) is pushed to the same Deferred, and an entry    *)
(* leaves the table only on CHOKE(s).                                      *)
C16_ErrorKeepsSession ==
    /\ (Handled("ERROR") /\ HadSession(last.msg.session))
          => /\ sessions = last.before.sessions
             /\ sinks = [last.before.sinks EXCEPT
                            ![sessions[last.msg.session]] =
                                Append(@, <<"error">> \o last.msg.reason)]
             /\ out = last.before.out
             /\ loop = "running"
    /\ (Handled("CHUNK") /\ last.result = "return")
          => sinks = [last.before.sinks EXCEPT
                         ![last.before.sessions[last.msg.session]] =
                             Append(@, <<"chunk", last.msg.data>>)]
    /\ \A s \in DOMAIN last.before.sessions :
          s \notin DOMAIN sessions => (Handled("CHOKE") /\ last.msg.session = s)

\* A CHUNK pushed to the Deferred that was handed an error before it.
C16_ChunkAfterError ==
    /\ Handled("CHUNK")
    /\ last.result = "return"
    /\ Len(sinks[sessions[last.msg.session]]) = 2
    /\ sinks[sessions[last.msg.session]][1][1] = "error"
    /\ sinks[sessions[last.msg.session]][2][1] = "chunk"

---------------------------------------------------------------------------
\* The Deferred the last message's session mapped to when it arrived.
Addressed == last.before.sessions[last.msg.session]

\* The sinks as before the last callback, but for one more notification at d.
Delivered(d, note) == [last.before.sinks EXCEPT ![d] = Append(@, note)]

(* C17. Messages are handled one at a time in the order received: each     *)
(* CHUNK(s) appends its payload, once, at the end of what the Deferred of  *)
(* s holds, each CHOKE(s) appends the end-of-stream signal and removes s,  *)
(* no callback changes what any other Deferred holds, and a Deferred that  *)
(* was closed is in the table no more and is handed nothing after.         *)
C17_DeliveryInTransportOrder ==
    /\ (Handled("CHUNK") /\ last.result = "return")
          => sinks = Delivered(Addressed, <<"chunk", last.msg.data>>)
    /\ (Handled("CHOKE") /\ HadSession(last.msg.session))
          => /\ sinks = Delivered(Addressed, <<"close">>)
             /\ last.msg.session \notin DOMAIN sessions
    /\ \A d \in DOMAIN last.before.sinks :
          sinks[d] # last.before.sinks[d]
              => /\ last.kind = "message"
                 /\ HadSession(last.msg.session)
                 /\ d = Addressed
    /\ \A d \in DOMAIN sinks :
          \A i \in DOMAIN sinks[d] :
              sinks[d][i] = <<"close">>
                  => /\ i = Len(sinks[d])
                     /\ \A s \in DOMAIN sessions : sessions[s] # d

\* Two payloads of one session delivered in the order they were received.
C17_TwoChunksInOrder ==
    /\ Handled("CHUNK")
    /\ last.result = "return"
    /\ last.msg.data = "y"
    /\ sinks[sessions[last.msg.session]] = <<<<"chunk", "x">>, <<"chunk", "y">>>>

---------------------------------------------------------------------------
(* C19. An INVOKE(s) whose dispatch returns while s already has an entry   *)
(* replaces the entry by the new request's Deferred; the previous Deferred *)
(* is neither closed nor handed an error, is in the table no more and is   *)
(* handed nothing later; the table has one entry for s.  When the dispatch *)
(* of the second INVOKE raises, the earlier entry stays.                   *)
C19_ReinvokeReplacesEntry ==
    /\ (Handled("INVOKE") /\ HadSession(last.msg.session) /\ last.result = "return")
          => /\ sessions[last.msg.session] = Len(last.before.sinks) + 1
             /\ sessions[last.msg.session] # Addressed
             /\ sinks[Addressed] = last.before.sinks[Addressed]
             /\ DOMAIN sessions = DOMAIN last.before.sessions
    /\ (Handled("INVOKE") /\ HadSession(last.msg.session) /\ last.result # "return")
          => sessions = last.before.sessions
    /\ \A s \in DOMAIN sessions :
          \/ sessions[s] = Len(last.before.sinks) + 1
          \/ HadSession(s) /\ sessions[s] = last.before.sessions[s]
    /\ \A d \in DOMAIN last.before.sinks :
          sinks[d] # last.before.sinks[d]
              => \E s \in DOMAIN last.before.sessions : last.before.sessions[s] = d

\* Two INVOKEs of one session returned; a CHUNK then went to the second
\* Deferred and the first was left empty.
C19_ChunkGoesToNewEntry ==
    /\ Handled("CHUNK")
    /\ last.result = "return"
    /\ counts.msgs = 3
    /\ Count(out, "ERROR") = 0
    /\ DOMAIN sessions = {last.msg.session}
    /\ sessions[last.msg.session] = 2
    /\ sinks = <<<<>>, <<<<"chunk", last.msg.data>>>>>>

---------------------------------------------------------------------------
(* C20. Session isolation: a received INVOKE, CHUNK, CHOKE or ERROR with   *)
(* session id s leaves the entry of every other session id as it was and   *)
(* hands nothing to its Deferred; any other message, a heartbeat tick, a   *)
(* disown expiry and the passing of time leave the whole table unchanged.  *)
C20_SessionIsolation ==
    /\ (last.kind = "message" /\ last.msg.id \in {"INVOKE", "CHUNK", "CHOKE", "ERROR"})
          => \A t \in SessionIds \ {last.msg.session} :
                /\ t \in DOMAIN sessions <=> HadSession(t)
                /\ HadSession(t)
                      => /\ sessions[t] = last.before.sessions[t]
                         /\ sinks[sessions[t]] = last.before.sinks[sessions[t]]
    /\ (last.kind = "message" /\ last.msg.id \notin {"INVOKE", "CHUNK", "CHOKE", "ERROR"})
          => (sessions = last.before.sessions /\ sinks = last.before.sinks)
    /\ last.kind \in {"heartbeat", "disown", "tick"}
          => (sessions = last.before.sessions /\ sinks = last.before.sinks)

\* A CHOKE removed one session while another stayed in the table.
C20_ChokeBesideLiveSession ==
    /\ Handled("CHOKE")
    /\ HadSession(last.msg.session)
    /\ DOMAIN sessions # {}

---------------------------------------------------------------------------
(* C12. After the start the first two messages emitted are the HANDSHAKE   *)
(* with the worker identity and then a HEARTBEAT, with the disown timer    *)
(* running; a HEARTBEAT of the peer cancels the disown timer; the periodic *)
(* timer is armed for as long as the engine runs, re-armed by every tick,  *)
(* and once the heartbeat interval has elapsed a second HEARTBEAT is       *)
(* emitted, unless the engine stopped before.                              *)
C12_StartThenPeriodicHeartbeat ==
    /\ [](/\ Len(out) >= 2
          /\ out[1] = Handshake(WorkerId)
          /\ out[2] = Heartbeat
          /\ last.kind = "init" => (Len(out) = 2 /\ disown_timer.active)
          /\ Handled("HEARTBEAT") => ~disown_timer.active
          /\ loop = "running" => heartbeat_timer.active
          /\ last.kind = "heartbeat"
                => heartbeat_timer = TimerStart(timeouts.heartbeat))
    /\ (loop = "running" /\ Count(out, "HEARTBEAT") = 1)
          ~> (Count(out, "HEARTBEAT") >= 2 \/ loop = "stopped")

\* The second HEARTBEAT went out after the peer had answered the first.
C12_SecondHeartbeatAfterAnswer ==
    /\ last.kind = "heartbeat"
    /\ ~last.before.disown_timer.active
    /\ Count(out, "HEARTBEAT") = 2
    /\ Count(out, "TERMINATE") = 0

---------------------------------------------------------------------------
(* C18. Peer-death detection.  The engine gives the peer the disown        *)
(* timeout to answer a heartbeat: once a heartbeat it emitted has been     *)
(* unanswered for that long while the engine runs, the disown timer has    *)
(* elapsed (it is due, and the engine stops); and the engine is disowned   *)
(* only while a heartbeat it emitted is unanswered.  The first half fails  *)
(* when the heartbeat interval is shorter than the disown timeout: every   *)
(* periodic heartbeat re-arms the disown timer before it elapses.          *)
C18_SilentPeerDisowned ==
    /\ (loop = "running" /\ counts.unanswered > 0
                          /\ counts.waited >= timeouts.disown)
          => TimerDue(disown_timer)
    /\ last.kind = "disown" => counts.unanswered > 0

\* With a heartbeat interval shorter than the disown timeout the disown timer
\* is always behind the heartbeat timer, and never due.
C18_DisownNeverDue ==
    timeouts.heartbeat < timeouts.disown
        => /\ ~TimerDue(disown_timer)
           /\ disown_timer.active => disown_timer.left > heartbeat_timer.left
           /\ last.kind # "disown"

\* The periodic heartbeat re-armed a disown timer that had one unit left.
C18_RearmedBeforeElapsing ==
    /\ timeouts.heartbeat < timeouts.disown
    /\ last.kind = "heartbeat"
    /\ last.before.disown_timer = [active |-> TRUE, left |-> 1]
    /\ counts.unanswered = 2

---------------------------------------------------------------------------
\* The last callback dispatched an INVOKE for a registered event name.
Dispatched == Handled("INVOKE") /\ last.msg.event \in DOMAIN events

\* What the handlers built from the factory registered for the event do.
Registered == Behaviour(events[last.msg.event].beh)

(* C15. Every register(name, factory) leaves the registry holding, for     *)
(* that name, a factory that builds what the registered one builds, and    *)
(* every other name as it was; nothing but register changes the registry.  *)
(* Dispatching an INVOKE for a registered name constructs exactly one      *)
(* handler, from the factory the registry holds (the most recent for that  *)
(* name), the handler's writes go out first, and the way its invoke ends   *)
(* is the way the engine classifies: a return records the session, an      *)
(* ordinary error is answered with code 1, an import or syntax error with  *)
(* code 2 and TERMINATE.  No other callback constructs a handler.          *)
C15_LatestRegistrationDispatched ==
    /\ last.kind = "on"
          => /\ last.msg.event \in DOMAIN events
             /\ events[last.msg.event].beh = last.msg.callback.beh
             /\ DOMAIN events = DOMAIN last.before.events \cup {last.msg.event}
             /\ \A n \in DOMAIN last.before.events \ {last.msg.event} :
                    events[n] = last.before.events[n]
    /\ last.kind \notin {"on", "init"} => events = last.before.events
    /\ Dispatched
          => /\ last.built = <<events[last.msg.event]>>
             /\ last.result = Registered.result
             /\ Len(Sent) >= Len(Registered.ops)
             /\ SubSeq(Sent, 1, Len(Registered.ops))
                    = ResponseOps(last.msg.session, Registered.ops)
             /\ Registered.result = "return"
                    => /\ Len(Sent) = Len(Registered.ops)
                       /\ last.msg.session \in DOMAIN sessions
             /\ Registered.result = "raise"
                    => /\ Len(Sent) = Len(Registered.ops) + 1
                       /\ Sent[Len(Sent)].id = "ERROR"
                       /\ Sent[Len(Sent)].code = RecoverableCode
                       /\ loop = "running"
             /\ Registered.result = "fatal"
                    => /\ Len(Sent) = Len(Registered.ops) + 2
                       /\ Sent[Len(Sent) - 1].id = "ERROR"
                       /\ Sent[Len(Sent) - 1].code = FatalCode
                       /\ Sent[Len(Sent)].id = "TERMINATE"
    /\ ~Dispatched => last.built = <<>>

\* The one event name was registered twice, and the INVOKE for it ended the
\* way the handlers of the factory now registered end: with an ordinary error.
C15_DispatchAfterReRegistration ==
    /\ Dispatched
    /\ counts.regs = 2
    /\ DOMAIN events = {last.msg.event}
    /\ last.built = <<events[last.msg.event]>>
    /\ events[last.msg.event].beh = "faulty"
    /\ last.result = "raise"

====
